---- MODULE Spec2Model ----
(***************************************************************************)
(* BatchedEnv (src/utils/batched_env.py): a coordinator that drives a pool *)
(* of worker processes, one simulation each, over one duplex pipe per      *)
(* worker.  Worker indices are Python's 0-based ones.                      *)
(***************************************************************************)
EXTENDS Integers, Sequences, FiniteSets, TLC

\* ------------------------------------------------------------------ bounds
NumEnvs == 2          \* len(env_fns)
MaxAction == 1        \* actions are 0..MaxAction
MaxSeed == 1          \* seeds are 0..MaxSeed
MaxCalls == 3         \* coordinator calls explored after construction
MaxCasts == 1         \* of which calls of seed, render and monitor
MaxIds == 2           \* longest env_ids list given to render
NearWrap == 32765     \* step calls an already running pool may have served

\* --------------------------------------------------------------- constants
Int16Max == 32767     \* dtype=np.int16
EpisodeLen == 3       \* the counter simulation is done at step_count = 3

Workers == 0 .. (NumEnvs - 1)
Actions == 0 .. MaxAction
Seeds == 0 .. MaxSeed
NoSeed == -1          \* Python's None as a seed: the simulation picks one

Min(a, b) == IF a < b THEN a ELSE b

\* In-place arithmetic on an int16 array wraps silently.
ToInt16(x) == ((x + Int16Max + 1) % (2 * (Int16Max + 1))) - (Int16Max + 1)

\* ------------------------------------------------- the counter simulation
Obs(e) == [count |-> e.count, seed |-> e.seed]

EnvReset(e) == [e EXCEPT !.count = 0]

EnvStep(e, a) ==
  LET n == [e EXCEPT !.count = e.count + 1]
  IN [env |-> n, ob |-> Obs(n), reward |-> a,
      done |-> (n.count = EpisodeLen), info |-> [steps |-> n.count]]

EnvSeed(e, s) == [e EXCEPT !.seed = s]

EnvMonitor(e, cfg) == [e EXCEPT !.monitor = cfg]

EnvSpaces == <<MaxAction + 1, EpisodeLen + 1>>

\* ------------------------------------------------------------------- state
VARIABLES
  pc,             \* where the coordinator is: "construct", "idle", or in a call
  k,              \* index of the loop the coordinator is in
  call,           \* the call in progress, or the last one: [op, arg]
  acc,            \* replies received so far by the call in progress
  ret,            \* what the last finished call returned or raised
  handles,        \* _p_to_workers/_p_to_parents/_ps: "live" or "None"
  num_envs,       \* _num_envs, None once closed
  spaces,         \* <<_action_space, _observation_space>>, <<>> when None
  step_counters,  \* _step_counters, <<>> when None
  to_workers,     \* per worker, commands sent and not yet received
  to_parents,     \* per worker, replies sent and not yet received
  wst,            \* per worker process: "running", "exited", "crashed"
  env,            \* per worker, its simulation
  calls,          \* coordinator calls begun so far
  casts,          \* calls of seed, render and monitor begun so far
  pre,            \* at the start of the call: the counters, who had no command
                  \* queued, whether the pool was closed, the commands queued,
                  \* the simulations
  execEnv,        \* per worker, its simulation when it began its latest step/reset
  executed,       \* per worker, the steps it has run since it last ran a 'reset' command
  callSent        \* per worker, the commands the call in progress has sent it

vars == <<pc, k, call, acc, ret, handles, num_envs, spaces, step_counters, to_workers,
          to_parents, wst, env, calls, casts, pre, execEnv, executed, callSent>>

coordVars == <<pc, k, call, acc, ret, handles, num_envs, spaces, step_counters, calls,
               casts, pre, callSent>>

Cmd(c, d) == [cmd |-> c, data |-> d]
NoRet == [kind |-> "pending"]
Raised(e) == [kind |-> "error", error |-> e]
Returned(v) == [kind |-> "value", value |-> v]
ReturnedNone == [kind |-> "none"]
None == [none |-> TRUE]

Send(i, c) ==
  /\ to_workers' = [to_workers EXCEPT ![i] = Append(@, c)]
  /\ callSent' = [callSent EXCEPT ![i] = Append(@, c)]

\* The simulation env_fn makes, seeded by the worker (lines 29-30).
FreshEnv(s) == [count |-> 0, seed |-> s, monitor |-> FALSE]

\* A pool is either fresh from the start of its processes (line 104), or has
\* served NearWrap step calls and nothing else since its construction.
Init ==
  /\ k = 0
  /\ call = [op |-> "construct", arg |-> None]
  /\ acc = <<>>
  /\ ret = NoRet
  /\ handles = "live"
  /\ num_envs = NumEnvs
  /\ to_workers = [i \in Workers |-> <<>>]
  /\ to_parents = [i \in Workers |-> <<>>]
  /\ wst = [i \in Workers |-> "running"]
  /\ calls = 0
  /\ casts = 0
  /\ callSent = [i \in Workers |-> <<>>]
  /\ \E sd \in [Workers -> Seeds] :
       \/ /\ pc = "construct"
          /\ spaces = <<>>
          /\ step_counters = <<>>
          /\ env = [i \in Workers |-> FreshEnv(sd[i])]
          /\ executed = [i \in Workers |-> 0]
       \/ /\ pc = "idle"
          /\ spaces = EnvSpaces
          /\ step_counters = [i \in Workers |-> ToInt16(NearWrap)]
          /\ env = [i \in Workers |->
                      [FreshEnv(sd[i]) EXCEPT !.count = NearWrap % EpisodeLen]]
          /\ executed = [i \in Workers |-> NearWrap]
  /\ execEnv = env
  /\ pre = [ctr |-> step_counters, quiet |-> [i \in Workers |-> TRUE],
            closed |-> FALSE, queued |-> to_workers, env |-> env]

\* ------------------------------------------------------------------ worker
workerVars == <<to_workers, to_parents, wst, env, execEnv, executed>>

Receives(i, c) ==
  /\ wst[i] = "running"
  /\ to_workers[i] # <<>>
  /\ Head(to_workers[i]).cmd = c

Recv(i) == to_workers' = [to_workers EXCEPT ![i] = Tail(@)]

Reply(i, r) == to_parents' = [to_parents EXCEPT ![i] = Append(@, r)]

\* The step command without the reset on done.
StepCmdNoAutoReset(e, a) ==
  LET r == EnvStep(e, a)
  IN [env |-> r.env,
      reply |-> [kind |-> "step", ob |-> r.ob, reward |-> r.reward,
                 done |-> r.done, info |-> r.info]]

\* cmd == 'step': the simulation after the command, and the tuple sent back.
StepCmd(e, a) ==
  LET r == EnvStep(e, a)
      ob == IF r.done THEN Obs(EnvReset(r.env)) ELSE r.ob
  IN [env |-> IF r.done THEN EnvReset(r.env) ELSE r.env,
      reply |-> [kind |-> "step", ob |-> ob, reward |-> r.reward,
                 done |-> r.done, info |-> r.info]]

\* cmd == 'reset'
ResetCmd(e) ==
  [env |-> EnvReset(e), reply |-> [kind |-> "reset", ob |-> Obs(EnvReset(e))]]

WorkerStep(i) ==
  /\ Receives(i, "step")
  /\ LET r == StepCmd(env[i], Head(to_workers[i]).data)
     IN /\ env' = [env EXCEPT ![i] = r.env]
        /\ Reply(i, r.reply)
  /\ Recv(i)
  /\ execEnv' = [execEnv EXCEPT ![i] = env[i]]
  /\ executed' = [executed EXCEPT ![i] = @ + 1]
  /\ UNCHANGED <<wst, coordVars>>

WorkerReset(i) ==
  /\ Receives(i, "reset")
  /\ LET r == ResetCmd(env[i])
     IN /\ env' = [env EXCEPT ![i] = r.env]
        /\ Reply(i, r.reply)
  /\ Recv(i)
  /\ execEnv' = [execEnv EXCEPT ![i] = env[i]]
  /\ executed' = [executed EXCEPT ![i] = 0]
  /\ UNCHANGED <<wst, coordVars>>

\* A worker that takes Close and goes on serving.
WorkerCloseStays(i) ==
  /\ Receives(i, "close")
  /\ Recv(i)
  /\ UNCHANGED <<to_parents, wst, env, execEnv, executed, coordVars>>

\* cmd == 'close': pipe.close() and break.
WorkerClose(i) ==
  /\ Receives(i, "close")
  /\ Recv(i)
  /\ wst' = [wst EXCEPT ![i] = "exited"]
  /\ UNCHANGED <<to_parents, env, execEnv, executed, coordVars>>

WorkerGetSpaces(i) ==
  /\ Receives(i, "get_spaces")
  /\ Recv(i)
  /\ Reply(i, [kind |-> "spaces", spaces |-> EnvSpaces])
  /\ UNCHANGED <<wst, env, execEnv, executed, coordVars>>

WorkerMonitor(i) ==
  /\ Receives(i, "monitor")
  /\ Recv(i)
  /\ env' = [env EXCEPT ![i] = EnvMonitor(@, Head(to_workers[i]).data)]
  /\ UNCHANGED <<to_parents, wst, execEnv, executed, coordVars>>

\* A worker that acknowledges a render.
WorkerRenderReplies(i) ==
  /\ Receives(i, "render")
  /\ Recv(i)
  /\ Reply(i, [kind |-> "render"])
  /\ UNCHANGED <<wst, env, execEnv, executed, coordVars>>

\* env.render() draws a frame and leaves the simulation as it is.
WorkerRender(i) ==
  /\ Receives(i, "render")
  /\ Recv(i)
  /\ UNCHANGED <<to_parents, wst, env, execEnv, executed, coordVars>>

\* A worker that takes a seed command and does not seed.
WorkerSeedIgnored(i) ==
  /\ Receives(i, "seed")
  /\ Recv(i)
  /\ UNCHANGED <<to_parents, wst, env, execEnv, executed, coordVars>>

\* env.seed(data); with data None the simulation picks the seed itself.
WorkerSeed(i) ==
  /\ Receives(i, "seed")
  /\ Recv(i)
  /\ \E s \in Seeds :
       /\ Head(to_workers[i]).data \in {s, NoSeed}
       /\ env' = [env EXCEPT ![i] = EnvSeed(@, s)]
  /\ UNCHANGED <<to_parents, wst, execEnv, executed, coordVars>>

Worker(i) ==
  \/ WorkerStep(i)
  \/ WorkerReset(i)
  \/ WorkerClose(i)
  \/ WorkerGetSpaces(i)
  \/ WorkerMonitor(i)
  \/ WorkerRender(i)
  \/ WorkerSeed(i)

\* ------------------------------------------------------------- coordinator
\* Every public method starts here: the call is recorded, the counters and the
\* idle workers are noted, and nothing has been sent yet.
Begin(op, arg) ==
  /\ pc = "idle"
  /\ calls < MaxCalls
  /\ calls' = calls + 1
  /\ casts' = IF op \in {"seed", "render", "monitor"} THEN casts + 1 ELSE casts
  /\ casts' <= MaxCasts
  /\ call' = [op |-> op, arg |-> arg]
  /\ pre' = [ctr |-> step_counters,
             quiet |-> [i \in Workers |-> to_workers[i] = <<>>],
             closed |-> (handles = "None"),
             queued |-> to_workers,
             env |-> env]
  /\ execEnv' = env
  /\ acc' = <<>>

\* A call that ends at once: by raising, or by returning without any traffic.
Ends(r) ==
  /\ ret' = r
  /\ pc' = "idle"
  /\ callSent' = [i \in Workers |-> <<>>]
  /\ UNCHANGED <<k, handles, num_envs, spaces, step_counters,
                 to_workers, to_parents, wst, env, executed>>

\* A call that goes on into the loop at p.
Enters(p) ==
  /\ ret' = NoRet
  /\ pc' = p
  /\ k' = 0
  /\ callSent' = [i \in Workers |-> <<>>]
  /\ UNCHANGED <<handles, num_envs, spaces, to_workers, to_parents, wst, env, executed>>

\* One more round of a loop of the call in progress, over range(num_envs);
\* after the last round the call is at p.
Loops(p) ==
  /\ k' = IF k + 1 < NumEnvs THEN k + 1 ELSE 0
  /\ pc' = IF k + 1 < NumEnvs THEN pc ELSE p

callVars == <<call, calls, casts, pre, execEnv>>

\* A construction that asks the last worker for the spaces.
ConstructAsksLast ==
  /\ pc = "construct"
  /\ Send(NumEnvs - 1, Cmd("get_spaces", None))
  /\ pc' = "construct_recv"
  /\ UNCHANGED <<k, call, acc, ret, handles, num_envs, spaces, step_counters, calls, casts, pre,
                 to_parents, wst, env, execEnv, executed>>

\* __init__, lines 107-109.
Construct ==
  /\ pc = "construct"
  /\ Send(0, Cmd("get_spaces", None))
  /\ pc' = "construct_recv"
  /\ UNCHANGED <<k, call, acc, ret, handles, num_envs, spaces, step_counters, calls, casts, pre,
                 to_parents, wst, env, execEnv, executed>>

\* A construction that reads the spaces and leaves the reply in the pipe.
ConstructPeeks ==
  /\ pc = "construct_recv"
  /\ to_parents[0] # <<>>
  /\ spaces' = Head(to_parents[0]).spaces
  /\ step_counters' = [i \in Workers |-> 0]
  /\ pre' = [pre EXCEPT !.ctr = step_counters']
  /\ ret' = ReturnedNone
  /\ pc' = "idle"
  /\ UNCHANGED <<k, call, acc, handles, num_envs, calls, casts, callSent,
                 to_workers, to_parents, wst, env, execEnv, executed>>

\* __init__, lines 108-109.
ConstructRecv ==
  /\ pc = "construct_recv"
  /\ to_parents[0] # <<>>
  /\ to_parents' = [to_parents EXCEPT ![0] = Tail(@)]
  /\ spaces' = Head(to_parents[0]).spaces
  /\ step_counters' = [i \in Workers |-> 0]
  /\ pre' = [pre EXCEPT !.ctr = step_counters']
  /\ ret' = ReturnedNone
  /\ pc' = "idle"
  /\ UNCHANGED <<k, call, acc, handles, num_envs, calls, casts, callSent,
                 to_workers, wst, env, execEnv, executed>>

\* step, lines 117-122.  zip() stops at the shorter of the pipes and the
\* actions; with no pipes left (after close) it raises.
Acts(a) == [actions |-> a]

StepCall(actions) ==
  /\ Begin("step", Acts(actions))
  /\ IF handles = "None" THEN Ends(Raised("TypeError"))
     ELSE /\ Enters(IF Min(NumEnvs, Len(actions)) = 0 THEN "step_recv" ELSE "step_send")
          /\ UNCHANGED step_counters

\* A step that starts to receive after its first send.
StepSendThenWait ==
  /\ pc = "step_send"
  /\ Send(k, Cmd("step", call.arg.actions[k + 1]))
  /\ k' = 0
  /\ pc' = "step_recv"
  /\ UNCHANGED <<acc, ret, handles, num_envs, spaces, step_counters, callVars,
                 to_parents, wst, env, executed>>

\* step, lines 117-118.
StepSend ==
  /\ pc = "step_send"
  /\ Send(k, Cmd("step", call.arg.actions[k + 1]))
  /\ k' = IF k + 1 < Min(NumEnvs, Len(call.arg.actions)) THEN k + 1 ELSE 0
  /\ pc' = IF k + 1 < Min(NumEnvs, Len(call.arg.actions)) THEN pc ELSE "step_recv"
  /\ UNCHANGED <<acc, ret, handles, num_envs, spaces, step_counters, callVars,
                 to_parents, wst, env, executed>>

\* self._step_counters += 1
CountersAfterStep(c) == [i \in Workers |-> ToInt16(c[i] + 1)]

\* The results stacked from the last pipe to the first.
StepReturnReversed(results) ==
  [states  |-> [i \in Workers |-> results[NumEnvs - i].ob],
   rewards |-> [i \in Workers |-> results[NumEnvs - i].reward],
   dones   |-> [i \in Workers |-> results[NumEnvs - i].done],
   infos   |-> [i \in Workers |-> results[NumEnvs - i].info]]

\* zip(*results) and the stacking: entry i of each array is results[i].
StepReturn(results) ==
  [states  |-> [i \in Workers |-> results[i + 1].ob],
   rewards |-> [i \in Workers |-> results[i + 1].reward],
   dones   |-> [i \in Workers |-> results[i + 1].done],
   infos   |-> [i \in Workers |-> results[i + 1].info]]

StepRecv ==
  /\ pc = "step_recv"
  /\ to_parents[k] # <<>>
  /\ to_parents' = [to_parents EXCEPT ![k] = Tail(@)]
  /\ acc' = Append(acc, Head(to_parents[k]))
  /\ Loops("idle")
  /\ IF k + 1 < NumEnvs
       THEN UNCHANGED <<ret, step_counters>>
       ELSE IF \A j \in DOMAIN acc' : acc'[j].kind = "step"
              THEN /\ step_counters' = CountersAfterStep(step_counters)
                   /\ ret' = Returned(StepReturn(acc'))
              ELSE /\ ret' = Raised("ValueError")
                   /\ UNCHANGED step_counters
  /\ UNCHANGED <<handles, num_envs, spaces, callVars, callSent, to_workers, wst, env, executed>>

\* reset, lines 134-152.
Mask(m) == [mask |-> m]

\* len(mask) in the place of np.count_nonzero(mask).
MaskLength(m) == NumEnvs

CountNonzero(m) == Cardinality({i \in Workers : m[i]})

\* A masked reset that zeroes every counter.
CountersAllZeroed(c, m) == [i \in Workers |-> 0]

\* self._step_counters[mask] = 0
CountersAfterReset(c, m) == [i \in Workers |-> IF m[i] THEN 0 ELSE c[i]]

\* A reset of all that forgets the counters.
CountersKept(c) == c

\* self._step_counters.fill(0)
CountersAfterResetAll(c) == [i \in Workers |-> 0]

ResetCall(m) ==
  /\ Begin("reset", Mask(m))
  /\ IF CountNonzero(m) = 0 THEN Ends(ReturnedNone)
     ELSE IF handles = "None" THEN Ends(Raised("TypeError"))
     ELSE /\ Enters("reset_send")
          /\ step_counters' = CountersAfterReset(step_counters, m)

ResetSend ==
  /\ pc = "reset_send"
  /\ IF call.arg.mask[k]
       THEN Send(k, Cmd("reset", None))
       ELSE UNCHANGED <<to_workers, callSent>>
  /\ Loops("reset_recv")
  /\ UNCHANGED <<acc, ret, handles, num_envs, spaces, step_counters, callVars,
                 to_parents, wst, env, executed>>

\* The replies stacked last first.
ResetReturnReversed(results) ==
  [j \in DOMAIN results |-> results[Len(results) + 1 - j].ob]

\* np.stack of the replies, in the order they were received.
ResetReturn(results) == [j \in DOMAIN results |-> results[j].ob]

ResetRecv ==
  /\ pc = "reset_recv"
  /\ IF call.arg.mask[k]
       THEN /\ to_parents[k] # <<>>
            /\ to_parents' = [to_parents EXCEPT ![k] = Tail(@)]
            /\ acc' = Append(acc, Head(to_parents[k]))
       ELSE UNCHANGED <<to_parents, acc>>
  /\ Loops("idle")
  /\ ret' = IF k + 1 < NumEnvs THEN ret ELSE Returned(ResetReturn(acc'))
  /\ UNCHANGED <<handles, num_envs, spaces, step_counters, callVars, callSent,
                 to_workers, wst, env, executed>>

ResetAllCall ==
  /\ Begin("reset", None)
  /\ IF handles = "None" THEN Ends(Raised("AttributeError"))
     ELSE /\ Enters("resetall_send")
          /\ step_counters' = CountersAfterResetAll(step_counters)

ResetAllSend ==
  /\ pc = "resetall_send"
  /\ Send(k, Cmd("reset", None))
  /\ Loops("resetall_recv")
  /\ UNCHANGED <<acc, ret, handles, num_envs, spaces, step_counters, callVars,
                 to_parents, wst, env, executed>>

\* A reset that returns without waiting for the replies.
ResetAllNoWait ==
  /\ pc = "resetall_recv"
  /\ pc' = "idle"
  /\ k' = 0
  /\ ret' = ReturnedNone
  /\ UNCHANGED <<acc, handles, num_envs, spaces, step_counters, callVars, callSent,
                 to_workers, to_parents, wst, env, executed>>

\* reset, line 152.
ResetAllRecv ==
  /\ pc = "resetall_recv"
  /\ to_parents[k] # <<>>
  /\ to_parents' = [to_parents EXCEPT ![k] = Tail(@)]
  /\ acc' = Append(acc, Head(to_parents[k]))
  /\ Loops("idle")
  /\ ret' = IF k + 1 < NumEnvs THEN ret ELSE Returned(ResetReturn(acc'))
  /\ UNCHANGED <<handles, num_envs, spaces, step_counters, callVars, callSent,
                 to_workers, wst, env, executed>>

\* close, lines 157-164.
CloseCall ==
  /\ Begin("close", None)
  /\ IF handles = "None" THEN Ends(Raised("TypeError"))
     ELSE /\ Enters("close_send")
          /\ UNCHANGED step_counters

CloseSend ==
  /\ pc = "close_send"
  /\ Send(k, Cmd("close", None))
  /\ Loops("close_join")
  /\ UNCHANGED <<acc, ret, handles, num_envs, spaces, step_counters, callVars,
                 to_parents, wst, env, executed>>

\* close without the joins.
CloseNoJoin ==
  /\ pc = "close_join"
  /\ Loops("idle")
  /\ IF k + 1 < NumEnvs
       THEN UNCHANGED <<ret, handles, num_envs, spaces, step_counters>>
       ELSE /\ ret' = ReturnedNone
            /\ handles' = "None"
            /\ num_envs' = None
            /\ spaces' = <<>>
            /\ step_counters' = <<>>
  /\ UNCHANGED <<acc, callVars, callSent, to_workers, to_parents, wst, env, executed>>

\* p.join() returns once process k is gone; after the last join every
\* attribute is set to None.
CloseJoin ==
  /\ pc = "close_join"
  /\ wst[k] # "running"
  /\ Loops("idle")
  /\ IF k + 1 < NumEnvs
       THEN UNCHANGED <<ret, handles, num_envs, spaces, step_counters>>
       ELSE /\ ret' = ReturnedNone
            /\ handles' = "None"
            /\ num_envs' = None
            /\ spaces' = <<>>
            /\ step_counters' = <<>>
  /\ UNCHANGED <<acc, callVars, callSent, to_workers, to_parents, wst, env, executed>>

\* A loop of sends that waits for nothing, as one step: worker i is sent out[i].
FanOut(out) ==
  /\ to_workers' = [i \in Workers |-> to_workers[i] \o out[i]]
  /\ callSent' = out
  /\ ret' = ReturnedNone
  /\ pc' = "idle"
  /\ UNCHANGED <<k, handles, num_envs, spaces, step_counters, to_parents, wst, env, executed>>

\* monitor, lines 169-172; the config is its is_monitor flag.
Config(c) == [is_monitor |-> c]

MonitorCall(cfg) ==
  /\ Begin("monitor", Config(cfg))
  /\ IF handles = "None" THEN Ends(Raised("TypeError"))
     ELSE FanOut([i \in Workers |-> <<Cmd("monitor", cfg)>>])

\* render, lines 181-188.  A list indexes self._p_to_workers as Python does:
\* -num_envs .. -1 count from the end, anything else outside raises.
PyIdx == (0 - NumEnvs - 1) .. NumEnvs
Ids(l) == [ids |-> l]
InRange(j) == 0 - NumEnvs <= j /\ j < NumEnvs
PipeAt(j) == IF j < 0 THEN j + NumEnvs ELSE j

RenderOut(l) ==
  [i \in Workers |->
     [n \in 1 .. Cardinality({j \in DOMAIN l : PipeAt(l[j]) = i}) |-> Cmd("render", None)]]

RenderCall(l) ==
  /\ Begin("render", Ids(l))
  /\ IF l = <<>> THEN Ends(Raised("ValueError"))
     ELSE IF handles = "None" THEN Ends(Raised("TypeError"))
     ELSE IF \E j \in DOMAIN l : ~InRange(l[j]) THEN Ends(Raised("IndexError"))
     ELSE FanOut(RenderOut(l))

RenderAllCall ==
  /\ Begin("render", None)
  /\ IF handles = "None" THEN Ends(Raised("TypeError"))
     ELSE FanOut([i \in Workers |-> <<Cmd("render", None)>>])

\* seed, lines 198-202.  A seed_map is a dict from env ids (here: of the pool)
\* to a seed or None; an empty dict is falsy and takes the else branch.
SeedMaps == UNION {[S -> Seeds \cup {NoSeed}] : S \in SUBSET Workers}
Map(f) == [map |-> f]

SeedOut(f) ==
  [i \in Workers |-> IF i \in DOMAIN f THEN <<Cmd("seed", f[i])>> ELSE <<>>]

SeedCall(f) ==
  /\ Begin("seed", Map(f))
  /\ IF handles = "None" THEN Ends(Raised("TypeError"))
     ELSE IF DOMAIN f # {} THEN FanOut(SeedOut(f))
     ELSE \E rs \in [Workers -> Seeds] : FanOut(SeedOut(rs))

SeedAllCall ==
  /\ Begin("seed", None)
  /\ IF handles = "None" THEN Ends(Raised("TypeError"))
     ELSE \E rs \in [Workers -> Seeds] : FanOut(SeedOut(rs))

\* ------------------------------------------------------------ the program
ActionLists == UNION {[1 .. n -> Actions] : n \in {NumEnvs - 1, NumEnvs, NumEnvs + 1}}
Masks == [Workers -> BOOLEAN]
IdLists == UNION {[1 .. n -> PyIdx] : n \in 0 .. MaxIds}

Next ==
  \/ Construct
  \/ ConstructRecv
  \/ \E a \in ActionLists : StepCall(a)
  \/ StepSend
  \/ StepRecv
  \/ \E m \in Masks : ResetCall(m)
  \/ ResetSend
  \/ ResetRecv
  \/ ResetAllCall
  \/ ResetAllSend
  \/ ResetAllRecv
  \/ CloseCall
  \/ CloseSend
  \/ CloseJoin
  \/ \E c \in BOOLEAN : MonitorCall(c)
  \/ \E l \in IdLists : RenderCall(l)
  \/ RenderAllCall
  \/ \E f \in SeedMaps : SeedCall(f)
  \/ SeedAllCall
  \/ \E i \in Workers : Worker(i)

Spec == Init /\ [][Next]_vars

\* A worker whose step raises and that reports it, where the code is silent.
WorkerFaultReported(i) ==
  /\ Receives(i, "step")
  /\ Recv(i)
  /\ Reply(i, [kind |-> "error"])
  /\ wst' = [wst EXCEPT ![i] = "crashed"]
  /\ UNCHANGED <<env, execEnv, executed, coordVars>>

\* An exception while worker i runs the command it received (lines 56-59):
\* nothing is sent, the worker's end of the pipe is closed and the process
\* exits with -1.  The coordinator keeps its own copy of that end open, so
\* its later sends succeed and its recv finds nothing, for ever.
WorkerFault(i) ==
  /\ wst[i] = "running"
  /\ to_workers[i] # <<>>
  /\ Recv(i)
  /\ wst' = [wst EXCEPT ![i] = "crashed"]
  /\ UNCHANGED <<to_parents, env, execEnv, executed, coordVars>>

\* The pool with simulations that may raise.
NextFault ==
  \/ Next
  \/ \E i \in Workers : WorkerFault(i)

\* The operating system runs every live worker, and the coordinator goes on
\* with close whenever it can.
Fairness ==
  /\ WF_vars(CloseSend)
  /\ WF_vars(CloseJoin)
  /\ \A i \in Workers : WF_vars(Worker(i))

\* A pool as its constructor finds it, the worker processes just started.
InitFresh == Init /\ pc = "construct"

SpecFault == InitFresh /\ [][NextFault]_vars /\ Fairness

\* ------------------------------------------------------------- properties
StepReturned == pc = "idle" /\ call.op = "step" /\ ret.kind = "value"

ResetReturned == pc = "idle" /\ call.op = "reset" /\ ret.kind = "value"

\* C1: when step(actions) with len(actions) = num_envs returns, entry i of the
\* observations, rewards, dones and infos is the reply worker i made to
\* Step(actions[i]) from the simulation it had when it ran the command.
StepIndexPreserving ==
  (StepReturned /\ Len(call.arg.actions) = NumEnvs) =>
    \A i \in Workers :
      LET r == StepCmd(execEnv[i], call.arg.actions[i + 1]).reply
      IN /\ ret.value.states[i] = r.ob
         /\ ret.value.rewards[i] = r.reward
         /\ ret.value.dones[i] = r.done
         /\ ret.value.infos[i] = r.info

\* A step has returned whose two first workers were given different actions
\* and had different simulations.
StepIndexWitness ==
  /\ StepReturned
  /\ Len(call.arg.actions) = NumEnvs
  /\ call.arg.actions[1] # call.arg.actions[2]
  /\ execEnv[0] # execEnv[1]
  /\ calls > 1

\* C2 (as claimed): after a completed step every counter is exactly 1 greater
\* than before the call.
StepAddsOne ==
  StepReturned => \A i \in Workers : step_counters[i] = pre.ctr[i] + 1

\* C3: a step that is done replies done = true with the observation of the reset
\* simulation, not the terminal one, and leaves the worker on the reset
\* simulation; from a fresh simulation the third step is the done one, with
\* observation 0 and counter 3.
AutoReset ==
  StepReturned =>
    \A i \in Workers :
      LET t == EnvStep(execEnv[i], call.arg.actions[i + 1])
      IN /\ ret.value.dones[i] = t.done
         /\ t.done => /\ ret.value.states[i] = Obs(EnvReset(t.env))
                      /\ ret.value.states[i] # t.ob
                      /\ ret.value.states[i].count = 0
                      /\ env[i].count = 0
         /\ (pre.ctr[i] = EpisodeLen - 1 /\ execEnv[i].count = EpisodeLen - 1) =>
              /\ ret.value.dones[i]
              /\ ret.value.states[i].count = 0
              /\ step_counters[i] = EpisodeLen

\* The third step of a fresh pool has returned, done, on worker 0.
AutoResetWitness ==
  /\ StepReturned
  /\ ret.value.dones[0]
  /\ step_counters[0] = EpisodeLen
  /\ ret.value.states[0].count = 0

RECURSIVE Ascending(_)
Ascending(S) ==
  IF S = {} THEN <<>>
  ELSE LET m == CHOOSE x \in S : \A y \in S : x <= y
       IN <<m>> \o Ascending(S \ {m})

Flagged(m) == Ascending({i \in Workers : m[i]})

MaskedReset == call.op = "reset" /\ call.arg # None

ResetOfAllIsResetNone ==
  (ResetReturned /\ (MaskedReset => \A i \in Workers : call.arg.mask[i])) =>
    /\ step_counters = [i \in Workers |-> 0]
    /\ callSent = [i \in Workers |-> <<Cmd("reset", None)>>]
    /\ to_workers = [i \in Workers |-> <<>>]
    /\ to_parents = [i \in Workers |-> <<>>]
    /\ env = [i \in Workers |-> EnvReset(execEnv[i])]
    /\ ret.value = [j \in 1 .. NumEnvs |-> Obs(EnvReset(execEnv[j - 1]))]

\* reset of an all-true mask has returned, the workers' simulations differing
\* and the counters not 0 before.
ResetOfAllWitness ==
  /\ ResetReturned
  /\ MaskedReset
  /\ \A i \in Workers : call.arg.mask[i]
  /\ pre.ctr[0] # 0
  /\ ret.value[1] # ret.value[2]

\* C8: when close returns, every worker was sent one Close, no worker process
\* is running, and the handles, the spaces and the counters are released; and a
\* worker leaves its loop by the break only once it was sent Close.
CloseTearsDown ==
  /\ (pc = "idle" /\ call.op = "close" /\ ret = ReturnedNone) =>
       /\ \A i \in Workers : callSent[i] = <<Cmd("close", None)>> /\ wst[i] # "running"
       /\ handles = "None"
       /\ spaces = <<>>
       /\ step_counters = <<>>
  /\ \A i \in Workers :
       wst[i] = "exited" =>
         \/ handles = "None"
         \/ call.op = "close" /\ callSent[i] = <<Cmd("close", None)>>

\* close has returned on a pool that had fire-and-forget commands queued.
CloseWitness ==
  /\ pc = "idle"
  /\ call.op = "close"
  /\ ret = ReturnedNone
  /\ \E i \in Workers : ~pre.quiet[i]
  /\ \A i \in Workers : wst[i] = "exited"

\* C9 (as claimed): every call made after close has returned raises.
ClosedPoolRaises ==
  (pc = "idle" /\ pre.closed) => (ret.kind = "error" /\ handles = "None")

\* C10 (as claimed): step(actions) with len(actions) # num_envs sends no Step,
\* leaves the counters alone and, once over, has raised.
StepChecksLength ==
  (call.op = "step" /\ Len(call.arg.actions) # NumEnvs) =>
    /\ \A i \in Workers : callSent[i] = <<>>
    /\ pc = "idle" => ret.kind = "error"
    /\ step_counters = pre.ctr

Count(q, c) == Cardinality({j \in DOMAIN q : q[j].cmd = c})

CastReturned(op) == pc = "idle" /\ call.op = op /\ ~pre.closed

\* C11 (as claimed): seed() sends every worker one Seed; seed(seed_map), the
\* empty map included, sends worker i one Seed with seed_map[i] if i is a key
\* and nothing if not; the call returns, and the counters are as they were.
SeedTargetsRequested ==
  CastReturned("seed") =>
    /\ ret = ReturnedNone
    /\ step_counters = pre.ctr
    /\ \A i \in Workers :
         IF call.arg = None
           THEN Len(callSent[i]) = 1 /\ callSent[i][1].cmd = "seed"
           ELSE callSent[i] = SeedOut(call.arg.map)[i]

\* C12: when the construction returns, num_envs is the number of factories, the
\* counters are 0, the spaces are those worker 0 declared and worker 0 alone
\* was sent one GetSpaces; GetSpaces is sent at no other time and to no other
\* worker; num_envs and the spaces stay as they are until close.
ConstructionIsStable ==
  /\ (pc = "idle" /\ call.op = "construct" /\ ret = ReturnedNone) =>
       /\ step_counters = [i \in Workers |-> 0]
       /\ callSent = [i \in Workers |->
                        IF i = 0 THEN <<Cmd("get_spaces", None)>> ELSE <<>>]
  /\ \A i \in Workers :
       Count(to_workers[i], "get_spaces") =
         IF i = 0 /\ pc = "construct_recv" /\ to_parents[0] = <<>> THEN 1 ELSE 0
  /\ pc \in {"construct", "construct_recv"} =>
       \A i \in Workers : i # 0 => to_workers[i] = <<>> /\ to_parents[i] = <<>>
  /\ handles = "live" =>
       /\ num_envs = NumEnvs
       /\ pc \notin {"construct", "construct_recv"} => spaces = EnvSpaces

\* A constructed pool has gone through calls and still answers with its
\* spaces.
ConstructionWitness ==
  /\ call.op # "construct"
  /\ executed[0] < EpisodeLen
  /\ calls = MaxCalls
  /\ pc = "idle"
  /\ handles = "live"
  /\ spaces = EnvSpaces

\* How often the list l names worker i.
Listed(l, i) == Cardinality({j \in DOMAIN l : l[j] = i})

\* C13 (as claimed): render() sends every worker one Render; render(env_ids)
\* sends one Render per listing of a worker and none to the others; an empty
\* list, or one with an index outside 0 .. num_envs - 1, raises and sends
\* nothing.
RenderTargetsRequested ==
  CastReturned("render") =>
    IF call.arg = None
      THEN /\ ret = ReturnedNone
           /\ callSent = [i \in Workers |-> <<Cmd("render", None)>>]
      ELSE IF call.arg.ids = <<>>
                \/ \E j \in DOMAIN call.arg.ids : call.arg.ids[j] \notin Workers
        THEN /\ ret.kind = "error"
             /\ callSent = [i \in Workers |-> <<>>]
        ELSE /\ ret = ReturnedNone
             /\ \A i \in Workers :
                  /\ Len(callSent[i]) = Listed(call.arg.ids, i)
                  /\ \A j \in DOMAIN callSent[i] : callSent[i][j].cmd = "render"

\* The step commands a step call has sent once it has sent to the workers
\* below n.
StepsSentBelow(n) ==
  [i \in Workers |->
     IF i < n THEN <<Cmd("step", call.arg.actions[i + 1])>> ELSE <<>>]

\* C14: a step call sends Step(actions[i]) to the workers in index order and
\* receives nothing while it sends; it receives the replies in index order
\* once every command is sent; it returns only with one reply of each worker.
StepIsBarrier ==
  (call.op = "step" /\ ~pre.closed) =>
    LET sends == Min(NumEnvs, Len(call.arg.actions))
    IN /\ pc = "step_send" =>
            /\ acc = <<>>
            /\ ret = NoRet
            /\ callSent = StepsSentBelow(k)
       /\ pc = "step_recv" =>
            /\ ret = NoRet
            /\ callSent = StepsSentBelow(sends)
            /\ Len(acc) = k
            /\ \A j \in 1 .. k :
                 acc[j] = StepCmd(execEnv[j - 1], call.arg.actions[j]).reply
       /\ pc = "idle" =>
            /\ ret # NoRet
            /\ callSent = StepsSentBelow(sends)
            /\ Len(acc) = NumEnvs
            /\ \A j \in 1 .. NumEnvs :
                 acc[j] = StepCmd(execEnv[j - 1], call.arg.actions[j]).reply

\* Every worker holds its step command, none has begun, and the call waits
\* for the first reply.
StepBarrierWitness ==
  /\ call.op = "step"
  /\ pc = "step_recv"
  /\ k = 0
  /\ Len(call.arg.actions) = NumEnvs
  /\ \A i \in Workers :
       /\ wst[i] = "running"
       /\ to_workers[i] = <<Cmd("step", call.arg.actions[i + 1])>>
       /\ to_parents[i] = <<>>

\* C15 (as claimed): no worker ever has more than one command sent to it and
\* not yet processed.
OneCommandInFlight == \A i \in Workers : Len(to_workers[i]) <= 1

Awaited == {"step", "reset", "get_spaces"}

\* The commands in q that are answered.
AwaitedIn(q) == Cardinality({j \in DOMAIN q : q[j].cmd \in Awaited})

\* C15 (amended): per worker at most one answered command (step, reset,
\* get_spaces) is outstanding, i.e. sent and its reply not yet received, and
\* nothing is sent behind it; seed, render, monitor and close are not
\* answered and queue up in front of it.
OneAwaitedCommandInFlight ==
  \A i \in Workers :
    /\ AwaitedIn(to_workers[i]) + Len(to_parents[i]) <= 1
    /\ \A j \in DOMAIN to_workers[i] :
         to_workers[i][j].cmd \in Awaited => j = Len(to_workers[i])

\* A worker holds a step behind a command it has not processed yet.
PipelinedWitness ==
  \E i \in Workers :
    /\ wst[i] = "running"
    /\ Len(to_workers[i]) >= 2
    /\ to_workers[i][1].cmd \in {"seed", "render", "monitor"}
    /\ to_workers[i][Len(to_workers[i])].cmd = "step"

\* The kind of reply that answers command c.
ReplyKind(c) ==
  IF c = "step" THEN "step" ELSE IF c = "reset" THEN "reset" ELSE "spaces"

\* Worker i takes the command at the head of its pipe in this step.
Processes(i) == to_workers[i] # <<>> /\ to_workers'[i] = Tail(to_workers[i])

\* C17: a worker that processes a step, reset or get_spaces sends exactly one
\* reply, of the kind of the command; one that processes a close, monitor,
\* render or seed sends none.
ReplyDiscipline ==
  [][\A i \in Workers :
       IF Processes(i)
         THEN IF Head(to_workers[i]).cmd \in Awaited
                THEN /\ Len(to_parents'[i]) = Len(to_parents[i]) + 1
                     /\ SubSeq(to_parents'[i], 1, Len(to_parents[i])) = to_parents[i]
                     /\ to_parents'[i][Len(to_parents'[i])].kind =
                          ReplyKind(Head(to_workers[i]).cmd)
                ELSE to_parents'[i] = to_parents[i]
         ELSE Len(to_parents'[i]) <= Len(to_parents[i])]_vars

\* Both workers have processed the render of a render() call, and no reply
\* is on its way.
ReplyDisciplineWitness ==
  /\ CastReturned("render")
  /\ call.arg = None
  /\ \A i \in Workers :
       /\ wst[i] = "running"
       /\ callSent[i] = <<Cmd("render", None)>>
       /\ to_workers[i] = <<>>
       /\ to_parents[i] = <<>>

\* The place of the last command c in q, 0 if there is none.
LastOf(q, c) ==
  LET S == {j \in DOMAIN q : q[j].cmd = c}
  IN IF S = {} THEN 0 ELSE CHOOSE j \in S : \A l \in S : l <= j

\* Simulation e is what e0 becomes by the seed, render and monitor commands
\* of q, taken in the order of q.
AppliedInOrder(e0, q, e) ==
  LET s == LastOf(q, "seed")
      m == LastOf(q, "monitor")
  IN /\ e.count = e0.count
     /\ e.monitor = IF m = 0 THEN e0.monitor ELSE q[m].data
     /\ e.seed = IF s = 0 THEN e0.seed
                 ELSE IF q[s].data = NoSeed THEN e.seed ELSE q[s].data

\* The observation the call returned for worker i.
ReturnedFor(i) ==
  IF call.op = "step" THEN ret.value.states[i]
  ELSE IF call.arg = None THEN ret.value[i + 1]
  ELSE ret.value[CHOOSE j \in 1 .. CountNonzero(call.arg.mask) :
                   Flagged(call.arg.mask)[j] = i]

\* C18: when worker i takes the Step or Reset of a call, every seed, render
\* and monitor queued for it before the call has been applied to its
\* simulation, in the order sent; the observation returned for worker i is
\* that of the simulation so seeded.
CastsAppliedFirst ==
  (call.op \in {"step", "reset"} /\ ~pre.closed) =>
    \A i \in Workers :
      (callSent[i] # <<>> /\ to_workers[i] = <<>>) =>
        /\ AppliedInOrder(pre.env[i], pre.queued[i], execEnv[i])
        /\ (pc = "idle" /\ ret.kind = "value") =>
             /\ ReturnedFor(i).seed = execEnv[i].seed
             /\ LastOf(pre.queued[i], "seed") # 0 =>
                  LET d == pre.queued[i][LastOf(pre.queued[i], "seed")].data
                  IN d # NoSeed => ReturnedFor(i).seed = d

\* seed({0: s}) with s not the seed worker 0 had, then reset() before worker
\* 0 took the seed: the observation reset returned for worker 0 is seeded s.
CastsAppliedWitness ==
  /\ ResetReturned
  /\ call.arg = None
  /\ Len(pre.queued[0]) = 1
  /\ pre.queued[0][1].cmd = "seed"
  /\ pre.queued[0][1].data \in Seeds
  /\ pre.queued[0][1].data # pre.env[0].seed
  /\ ret.value[1].seed = pre.queued[0][1].data

\* The command of the call in progress that worker i answers.
AwaitedOf(op) ==
  IF op = "construct" THEN "get_spaces" ELSE IF op = "step" THEN "step" ELSE "reset"

\* C20: whenever a call has returned, every pipe to the coordinator is empty;
\* a reply in a pipe, or received by the call in progress, answers the one
\* command this call sent to that worker and is of its kind.
NoStaleReplies ==
  /\ pc = "idle" => \A i \in Workers : to_parents[i] = <<>>
  /\ \A i \in Workers :
       to_parents[i] # <<>> =>
         /\ Len(to_parents[i]) = 1
         /\ call.op \in {"construct", "step", "reset"}
         /\ callSent[i] = <<Cmd(AwaitedOf(call.op),
                                IF call.op = "step" THEN call.arg.actions[i + 1]
                                ELSE None)>>
         /\ to_workers[i] = <<>>
         /\ to_parents[i][1].kind = ReplyKind(AwaitedOf(call.op))
         /\ call.op = "step" =>
              to_parents[i][1] = StepCmd(execEnv[i], call.arg.actions[i + 1]).reply
         /\ call.op = "reset" => to_parents[i][1] = ResetCmd(execEnv[i]).reply
  /\ (call.op \in {"step", "reset"} /\ ~pre.closed) =>
       \A j \in DOMAIN acc : acc[j].kind = ReplyKind(call.op)

\* The third call on a pool, a step after a reset or a seed, has returned with
\* the replies to its own commands.
NoStaleRepliesWitness ==
  /\ StepReturned
  /\ calls = MaxCalls
  /\ \A i \in Workers :
       /\ executed[i] <= EpisodeLen
       /\ to_parents[i] = <<>>
       /\ acc[i + 1] = StepCmd(execEnv[i], call.arg.actions[i + 1]).reply

Closing == call.op = "close" /\ pc \in {"close_send", "close_join"}

CloseReturned == pc = "idle" /\ call.op = "close" /\ ret = ReturnedNone

\* C19: a close called on an open pool returns in the end, whatever the
\* workers still have queued and whichever of them has crashed, as long as
\* the live workers are run.
CloseTerminates == Closing ~> CloseReturned

\* close has returned on a pool with a crashed worker and with a worker that
\* had commands queued when close was called.
CloseTerminatesWitness ==
  /\ CloseReturned
  /\ \E i \in Workers : wst[i] = "crashed"
  /\ \E i \in Workers : wst[i] = "exited" /\ ~pre.quiet[i]

\* The call in progress waits for a reply of worker i, which has crashed and
\* has sent none.
WaitsForCrashed(i) ==
  /\ wst[i] = "crashed"
  /\ to_parents[i] = <<>>
  /\ k = i
  /\ \/ pc \in {"step_recv", "resetall_recv", "construct_recv"}
     \/ pc = "reset_recv" /\ call.arg.mask[i]

\* C16: a worker that raises while it runs a command sends no reply and is
\* gone; a step or reset that waits for the reply of a crashed worker stays
\* where it is for ever, without a value and without an error; so no step or
\* reset that a crashed worker had to answer has returned, and none has raised.
FaultHangsCoordinator ==
  /\ [](\A i \in Workers :
          /\ (wst[i] = "crashed" /\ callSent[i] # <<>> /\ ~pre.closed
                /\ call.op \in {"step", "reset"}) => (pc # "idle" /\ ret = NoRet)
          /\ (call.op \in {"step", "reset"} /\ ~pre.closed) => ret.kind # "error")
  /\ [][\A i \in Workers :
          WaitsForCrashed(i) =>
            /\ WaitsForCrashed(i)'
            /\ UNCHANGED <<pc, k, ret, acc, call>>]_vars

\* Worker 1 raised in its step: the step call has the reply of worker 0 and
\* waits for the one worker 1 never sends.
FaultHangWitness ==
  /\ call.op = "step"
  /\ pc = "step_recv"
  /\ Len(call.arg.actions) = NumEnvs
  /\ Len(acc) = 1
  /\ WaitsForCrashed(1)
  /\ callSent[1] # <<>>
  /\ to_workers[1] = <<>>
  /\ pre.queued[1] = <<>>

====
